---------------------------- MODULE Spec2Model ----------------------------
(***************************************************************************)
(* A model of cornice/pyramidhook.py: the registration of a service's      *)
(* views into the pyramid configuration (register_service_views and its    *)
(* helpers), the fallback view, and the response post-processing hooks.    *)
(*                                                                         *)
(* Python values are modelled as follows.                                  *)
(*   - a dict is a function whose DOMAIN is its set of keys;               *)
(*   - a list or tuple is a sequence;                                      *)
(*   - an accept / content_type value is an atom [callable, v]: a string   *)
(*     v, or a callable named v;                                           *)
(*   - a declared accept / content_type argument is [list, items]: a bare  *)
(*     atom (list = FALSE, one item) or a list of atoms.                   *)
(***************************************************************************)
EXTENDS Integers, Sequences, FiniteSets, TLC

VARIABLES
    service,    \* the Service object handed to register_service_views
    config,     \* the pyramid Configurator: views, routes, cornice_services
    ncalls,     \* number of completed register_service_views calls
    request,    \* the request seen by the fallback view / the hooks
    outcome,    \* what the fallback view raised
    response,   \* the outgoing response of the request
    pc          \* position of the request in the router

vars == <<service, config, ncalls, request, outcome, response, pc>>

------------------------------------------------------------------------------
(* Bounds of the model *)

\* largest number of definitions of a service before registration
MaxDefs == 2
\* largest number of values of one declared accept / content_type argument
MaxVals == 2
\* largest number of register_service_views calls on one service
MaxCalls == 2
\* largest number of filters of one view
MaxFilters == 2

------------------------------------------------------------------------------
(* Generic helpers for dicts and lists *)

\* dict without key k (dict.pop / del)
Pop(d, k) == [x \in DOMAIN d \ {k} |-> d[x]]

\* dict with d[k] = v
Put(d, k, v) == [x \in DOMAIN d \cup {k} |-> IF x = k THEN v ELSE d[x]]

\* dict restricted to the keys in ks
Restrict(d, ks) == [x \in DOMAIN d \cap ks |-> d[x]]

\* the empty dict
EmptyDict == [x \in {} |-> x]

\* d.get(k, default)
Get(d, k, default) == IF k \in DOMAIN d THEN d[k] ELSE default

\* the set of the elements of a list
Range(s) == {s[i] : i \in DOMAIN s}

RECURSIVE Concat(_)
\* the concatenation of a list of lists
Concat(ss) == IF ss = <<>> THEN <<>> ELSE Head(ss) \o Concat(Tail(ss))

Max(a, b) == IF a >= b THEN a ELSE b

------------------------------------------------------------------------------
(* Values of the program *)

NO_PERMISSION_REQUIRED == "__no_permission_required__"

\* cornice.cors.CORS_PARAMETERS, imported at line 23
CORS_PARAMETERS ==
    {"cors_headers", "cors_enabled", "cors_origins", "cors_credentials",
     "cors_max_age", "cors_expose_all_headers"}

\* Cornice-specific arguments that pyramid does not know about
cornice_parameters ==
    {"filters", "validators", "schema", "klass", "error_handler"}
        \cup CORS_PARAMETERS

\* config.get_predlist('route').sorter.names of a stock pyramid configuration
route_predicates ==
    {"xhr", "request_method", "path_info", "request_param", "header",
     "accept", "custom", "traverse", "effective_principals", "is_authenticated"}

\* config.get_predlist('view').sorter.names, with cornice's content_type
view_predicates ==
    {"xhr", "request_method", "path_info", "request_param", "header",
     "accept", "containment", "request_type", "match_param", "physical_path",
     "is_authenticated", "effective_principals", "custom", "content_type"}

Scalar(v) == [callable |-> FALSE, v |-> v]
Callable(v) == [callable |-> TRUE, v |-> v]

\* cornice.util.to_list: a list or tuple as it is, anything else in a list
to_list(obj) == IF obj.list THEN obj.items ELSE <<obj.items[1]>>


------------------------------------------------------------------------------
(* Collaborators of register_service_views *)

\* cornice.cors.get_cors_validator(service)
get_cors_validator(svc) == "cors_validator"

\* cornice.cors.get_cors_preflight_view(service)
get_cors_preflight_view(svc) == "cors_preflight_view"

\* cornice.service.decorate_view(view, args, method, route_args): the view
\* callable bound to the arguments it was decorated with
decorate_view(view, args, method, route_args) ==
    [kind |-> "decorated", view |-> view, method |-> method,
     args |-> args, route_args |-> route_args]

\* Service.add_view(method, view, **kwargs): one more definition of the
\* upper-cased method, whose arguments are kwargs with a validators list
\* of their own (the validators given, none by default); the method joins
\* defined_methods
add_view(svc, method, view, kwargs) ==
    [svc EXCEPT
        !.definitions = Append(@, [method |-> method, view |-> view,
                                   args |-> Put(kwargs, "validators",
                                       Get(kwargs, "validators", <<>>))]),
        !.defined_methods =
            IF method \in Range(@) THEN @ ELSE Append(@, method)]

\* config.add_view(view=..., route_name=..., **kwargs): the call is recorded
\* with the arguments it was given; defn is the index of the definition the
\* call was made for (0: none), kept for the properties only
config_add_view(cfg, view, route_name, kwargs, defn) ==
    [cfg EXCEPT !.views = Append(@, [view |-> view, route_name |-> route_name,
                                     kwargs |-> kwargs, defn |-> defn])]

\* config.add_route(route_name, path, **route_args)
config_add_route(cfg, route_name, path, route_args) ==
    [cfg EXCEPT !.routes = Append(@, [name |-> route_name, path |-> path,
                                      args |-> route_args])]

------------------------------------------------------------------------------
(* _pop_predicate_definition, _pop_complex_predicates, _mungle_view_args *)

\* values = to_list(args.pop(kind, ())), each mapped to {'kind', 'value'};
\* the result is the popped dict and the list
pop_predicate_definition(args, kind) ==
    LET values == IF kind \in DOMAIN args THEN to_list(args[kind]) ELSE <<>>
    IN  [args   |-> Pop(args, kind),
         values |-> [i \in DOMAIN values |->
                        [kind |-> kind, value |-> values[i]]]]

RECURSIVE product(_)
\* itertools.product(*lists): the tuples in the order python yields them, the
\* rightmost list advancing fastest; the product of no list is one empty tuple
product(lists) ==
    IF lists = <<>> THEN << <<>> >>
    ELSE LET rest == product(Tail(lists))
             first == Head(lists)
         IN  Concat([i \in DOMAIN first |->
                        [j \in DOMAIN rest |-> <<first[i]>> \o rest[j]]])

\* filter(None, seq): the elements that are not empty
filter_none(seq) == SelectSeq(seq, LAMBDA x : x # <<>>)

\* as pop_complex_predicates, the empty lists left in the product's input
pop_complex_predicates_unfiltered(args) ==
    LET accept_list == pop_predicate_definition(args, "accept")
        content_type_list ==
            pop_predicate_definition(accept_list.args, "content_type")
    IN  [args |-> content_type_list.args,
         predicate_product |->
            filter_none(product(<<accept_list.values,
                                  content_type_list.values>>))]

pop_complex_predicates(args) ==
    LET accept_list == pop_predicate_definition(args, "accept")
        content_type_list ==
            pop_predicate_definition(accept_list.args, "content_type")
        product_input ==
            filter_none(<<accept_list.values, content_type_list.values>>)
    IN  [args |-> content_type_list.args,
         predicate_product |-> filter_none(product(product_input))]

\* callable_map of _mungle_view_args
callable_map(kind) ==
    IF kind = "accept" THEN "match_accept_header"
    ELSE "match_content_type_header"

\* one iteration of the loop of _mungle_view_args
mungle_entry(args, predicate_entry) ==
    LET kind == predicate_entry.kind
        value == predicate_entry.value
        predicates == Get(args, "custom_predicates", <<>>)
    IN  IF value.callable
        THEN LET predicate_checker ==
                     [func |-> callable_map(kind), arg |-> value.v]
             IN  Put(args, "custom_predicates",
                     Append(predicates, predicate_checker))
        ELSE Put(args, kind, value.v)

RECURSIVE mungle_view_args(_, _)
mungle_view_args(args, predicate_list) ==
    IF predicate_list = <<>> THEN args
    ELSE mungle_view_args(mungle_entry(args, Head(predicate_list)),
                          Tail(predicate_list))

------------------------------------------------------------------------------
(* register_service_views *)

\* copy.copy(args), then copy.deepcopy of every item that is not a cornice
\* parameter: the set of the keys whose value is still the very object held
\* by the definition of the service
shared_items(args) == {item \in DOMAIN args : item \in cornice_parameters}

\* route_args: the factory and, for every route predicate but accept, the
\* attribute of that name of the service
route_args_of(svc) ==
    [p \in {q \in DOMAIN svc.attrs :
                q = "factory" \/ (q \in route_predicates /\ q # "accept")}
        |-> svc.attrs[p]]

\* route_name: the existing pyramid route of the service, or its name
route_name_of(svc) ==
    IF svc.pyramid_route # "" THEN svc.pyramid_route ELSE svc.name

\* services[...] = service: the key under which the service is recorded
services_key(cfg, svc) ==
    IF svc.pyramid_route # "" THEN <<"__cornice", svc.pyramid_route>>
    ELSE <<cfg.route_prefix, svc.path>>

RECURSIVE register_combinations(_, _, _, _, _, _)
\* the loop over predicate_definitions + empty_contenttype: args is rebound
\* to a copy of itself in every iteration, mungled, and passed to add_view
register_combinations(cfg, args, predicate_lists, decorated_view, route_name, defn) ==
    IF predicate_lists = <<>> THEN cfg
    ELSE LET copied == args
             mungled == mungle_view_args(copied, Head(predicate_lists))
         IN  register_combinations(
                 config_add_view(cfg, decorated_view, route_name, mungled, defn),
                 mungled, Tail(predicate_lists), decorated_view, route_name,
                 defn)

\* del args[item] for every cornice parameter, then args.pop(pred) for every
\* route predicate that is no view predicate
strip_args(args) ==
    LET kept == Restrict(args, DOMAIN args \ cornice_parameters)
    IN  Restrict(kept, DOMAIN kept \ (route_predicates \ view_predicates))

\* args['validators'].insert(0, cors_validator) when CORS is enabled
insert_cors_validator(svc, validators) ==
    IF svc.cors_enabled THEN <<get_cors_validator(svc)>> \o validators
    ELSE validators

\* the body of the loop over service.definitions, for definition number i;
\* st is [service, config]
register_definition(st, i) ==
    LET svc == st.service
        method == svc.definitions[i].method
        view == svc.definitions[i].view
        args0 == svc.definitions[i].args
        shared == shared_items(args0)
        args1 == Put(args0, "request_method", method)
        validators == insert_cors_validator(svc, args1["validators"])
        args2 == Put(args1, "validators", validators)
        \* the insert acts on the list of the definition when it is shared
        svc2 == IF "validators" \in shared
                THEN [svc EXCEPT !.definitions[i].args["validators"] = validators]
                ELSE svc
        decorated_view == decorate_view(view, args2, method, route_args_of(svc))
        popped == pop_complex_predicates(strip_args(args2))
        predicate_definitions == popped.predicate_product
        empty_contenttype == << <<[kind |-> "content_type", value |-> Scalar("")]>> >>
        route_name == route_name_of(svc)
    IN  [service |-> svc2,
         config |->
            IF predicate_definitions # <<>>
            THEN register_combinations(st.config, popped.args,
                     predicate_definitions \o empty_contenttype,
                     decorated_view, route_name, i)
            ELSE config_add_view(st.config, decorated_view, route_name,
                                 popped.args, i)]

RECURSIVE register_definitions(_, _)
\* for method, view, args in service.definitions, from definition number i
register_definitions(st, i) ==
    IF i > Len(st.service.definitions) THEN st
    ELSE register_definitions(register_definition(st, i), i + 1)

\* as register_cors_preflight, whatever the methods the service defines
register_cors_preflight_always(svc) ==
    IF svc.cors_enabled
    THEN add_view(svc, "OPTIONS", get_cors_preflight_view(svc),
                  [permission |-> NO_PERMISSION_REQUIRED])
    ELSE svc

\* the OPTIONS view registered before anything else when CORS needs it
register_cors_preflight(svc) ==
    IF svc.cors_enabled /\ "OPTIONS" \notin Range(svc.defined_methods)
    THEN add_view(svc, "OPTIONS", get_cors_preflight_view(svc),
                  [permission |-> NO_PERMISSION_REQUIRED])
    ELSE svc

\* get_fallback_view(service): the fallback view of the service
get_fallback_view(svc) ==
    [kind |-> "fallback", view |-> svc.name, method |-> "",
     args |-> EmptyDict, route_args |-> EmptyDict]

\* as register_fallback, without the test of service.definitions
register_fallback_always(st) ==
    [st EXCEPT !.config = config_add_view(@, get_fallback_view(st.service),
                    route_name_of(st.service),
                    [permission |-> NO_PERMISSION_REQUIRED,
                     require_csrf |-> FALSE], 0)]

\* the fallback view, added last when the service has definitions
register_fallback(st) ==
    IF st.service.definitions # <<>>
    THEN [st EXCEPT !.config = config_add_view(@, get_fallback_view(st.service),
                        route_name_of(st.service),
                        [permission |-> NO_PERMISSION_REQUIRED,
                         require_csrf |-> FALSE], 0)]
    ELSE st

\* register_service_views(config, service): the [service, config] it leaves
register_service_views(cfg, svc) ==
    LET cfg1 == [cfg EXCEPT !.cornice_services =
                    Put(@, services_key(cfg, svc), svc.name)]
        svc1 == register_cors_preflight(svc)
        cfg2 == IF svc.pyramid_route = ""
                THEN config_add_route(cfg1, route_name_of(svc), svc.path,
                                      route_args_of(svc))
                ELSE cfg1
    IN  register_fallback(
            register_definitions([service |-> svc1, config |-> cfg2], 1))

------------------------------------------------------------------------------
(* The services and configurations the model starts from *)

MediaTypes == <<"application/json", "text/plain", "text/html", "application/xml">>
Matchers == <<"accept_fn1", "accept_fn2", "accept_fn3", "accept_fn4">>

\* the first n values a declaration is made of: strings, or callables
pool(n, callables) ==
    [i \in 1..n |-> IF callables THEN Callable(Matchers[i])
                    ELSE Scalar(MediaTypes[i])]

\* the keyword arguments of one application definition that declares nA
\* accept values and nC content_type values: a single value is declared
\* bare unless st.as_list, no value is declared by leaving the argument out
\* unless st.as_list
declared(key, n, callables, as_list) ==
    IF n = 0 /\ ~as_list THEN EmptyDict
    ELSE Put(EmptyDict, key, [list |-> (n # 1 \/ as_list),
                              items |-> pool(n, callables)])

definition_kwargs(nA, nC, st) ==
    [validators |-> <<"app_validator">>, renderer |-> "json",
     schema |-> "app_schema", traverse |-> "/a/b"]
    @@ declared("accept", nA, st.accept_callables, st.as_list)
    @@ declared("content_type", nC, st.content_type_callables, st.as_list)
    @@ (IF st.custom
        THEN [custom_predicates |-> <<[func |-> "app_predicate", arg |-> ""]>>]
        ELSE EmptyDict)

\* how the application writes its service: whether the accept and the
\* content_type values are callables; the values are always written as lists
\* when exactly one of the two kinds is made of callables, and then the
\* definitions also declare a custom predicate of their own and the service
\* reuses an existing route
Styles ==
    {st \in [accept_callables : BOOLEAN, content_type_callables : BOOLEAN,
             as_list : BOOLEAN, custom : BOOLEAN, existing_route : BOOLEAN] :
        /\ st.as_list = (st.accept_callables # st.content_type_callables)
        /\ st.custom = st.as_list
        /\ st.existing_route = st.as_list}

\* one application definition: a method and numbers of declared values
DefinitionChoices(methods, counts) ==
    [method : methods, nA : counts, nC : counts]

\* a service without definitions
new_service(cors_enabled, pyramid_route) ==
    [name |-> "svc", path |-> "/svc", pyramid_route |-> pyramid_route,
     cors_enabled |-> cors_enabled,
     attrs |-> [factory |-> "app_factory", accept |-> "text/html",
                xhr |-> TRUE],
     defined_methods |-> <<>>, definitions |-> <<>>]

RECURSIVE build_service(_, _, _)
\* the service after the application declared the definitions of choices
build_service(svc, choices, st) ==
    IF choices = <<>> THEN svc
    ELSE build_service(
             add_view(svc, Head(choices).method, "app_view",
                      definition_kwargs(Head(choices).nA, Head(choices).nC, st)),
             Tail(choices), st)

\* the sequences of at most n elements of S
SeqsUpTo(S, n) == UNION {[1..k -> S] : k \in 0..n}

Services(choices, styles, cors_choices) ==
    {build_service(
         new_service(cors, IF st.existing_route THEN "existing_route" ELSE ""),
         defs, st) :
        cors \in cors_choices, st \in styles,
        defs \in SeqsUpTo(choices, MaxDefs)}

new_config ==
    [route_prefix |-> "", views |-> <<>>, routes |-> <<>>,
     cornice_services |-> EmptyDict]

NoRequest == [method |-> ""]
NoOutcome == [kind |-> "none"]
NoResponse == [kind |-> "none"]

------------------------------------------------------------------------------
(* Registration: the application registers its service, once or again *)

\* the definitions registered: GET views declaring up to MaxVals values of
\* each kind, and plain OPTIONS views
RegChoices ==
    DefinitionChoices({"GET"}, 0..MaxVals)
        \cup DefinitionChoices({"OPTIONS"}, {0})

InitReg ==
    /\ service \in Services(RegChoices, Styles, BOOLEAN)
    /\ config = new_config
    /\ ncalls = 0
    /\ request = NoRequest
    /\ outcome = NoOutcome
    /\ response = NoResponse
    /\ pc = "config"

RegisterServiceViews ==
    /\ pc = "config"
    /\ ncalls < MaxCalls
    /\ LET st == register_service_views(config, service)
       IN  /\ service' = st.service
           /\ config' = st.config
    /\ ncalls' = ncalls + 1
    /\ UNCHANGED <<request, outcome, response, pc>>

NextReg == RegisterServiceViews

SpecReg == InitReg /\ [][NextReg]_vars

------------------------------------------------------------------------------
(* The fallback view *)

HTTPMethodNotAllowed_code == 405
HTTPNotAcceptable_code == 406
HTTPUnsupportedMediaType_code == 415

\* the strings among the values a definition declares for kind
declared_scalars(args, kind) ==
    IF kind \notin DOMAIN args THEN {}
    ELSE {a.v : a \in {x \in Range(to_list(args[kind])) : ~x.callable}}

\* Service.get_acceptable(method, filter_callables=True): the accept values
\* of the definitions of the method, the callables left out
get_acceptable(svc, method) ==
    UNION {declared_scalars(svc.definitions[i].args, "accept") :
              i \in {j \in DOMAIN svc.definitions :
                        svc.definitions[j].method = method}}

\* Service.get_contenttypes(method, filter_callables=True)
get_contenttypes(svc, method) ==
    UNION {declared_scalars(svc.definitions[i].args, "content_type") :
              i \in {j \in DOMAIN svc.definitions :
                        svc.definitions[j].method = method}}

\* request.accept.acceptable_offers(offers): the offers the Accept header of
\* the request allows; the header */* (or no header) allows every offer
acceptable_offers(req, offers) ==
    {o \in offers : req.accept = "*/*" \/ req.accept = o}

\* cornice.util.content_type_matches(request, content_types)
content_type_matches(req, content_types) ==
    req.content_type \in content_types

\* request.errors.add(location, name, description)
errors_add(req, location, name, description) ==
    [req EXCEPT !.errors.list = Append(@, [location |-> location,
                    name |-> name, description |-> description])]

\* service.error_handler(request): the response made of request.errors
error_handler(svc, req) ==
    [raised |-> "error_handler", status |-> req.errors.status,
     allow |-> <<>>, errors |-> req.errors.list]

\* the branch of a request whose method the service does not define
method_not_allowed(svc, req) ==
    [request |-> req,
     outcome |-> [raised |-> "HTTPMethodNotAllowed",
                  status |-> HTTPMethodNotAllowed_code,
                  allow |-> svc.defined_methods, errors |-> <<>>]]

\* the branch of an Accept header that allows no acceptable offer
not_acceptable(svc, req, acceptable) ==
    LET req1 == errors_add(req, "header", "Accept",
                           [should_be_one_of |-> acceptable])
        req2 == [req1 EXCEPT !.errors.status = HTTPNotAcceptable_code]
    IN  [request |-> req2, outcome |-> error_handler(svc, req2)]

\* as unsupported_media_type, the status of the Accept branch left in place
unsupported_media_type_406(svc, req, supported_contenttypes) ==
    LET req1 == errors_add(req, "header", "Content-Type",
                           [should_be_one_of |-> supported_contenttypes])
        req2 == [req1 EXCEPT !.errors.status = HTTPNotAcceptable_code]
    IN  [request |-> req2, outcome |-> error_handler(svc, req2)]

\* the branch of a content type that is none of the supported ones
unsupported_media_type(svc, req, supported_contenttypes) ==
    LET req1 == errors_add(req, "header", "Content-Type",
                           [should_be_one_of |-> supported_contenttypes])
        req2 == [req1 EXCEPT !.errors.status = HTTPUnsupportedMediaType_code]
    IN  [request |-> req2, outcome |-> error_handler(svc, req2)]

RECURSIVE search_definitions(_, _, _, _, _)
\* the loop over service.definitions from definition number i, acceptable
\* and supported_contenttypes being what the earlier iterations collected;
\* PredicateMismatch is raised when the loop ends
search_definitions(svc, req, i, acceptable, supported_contenttypes) ==
    IF i > Len(svc.definitions)
    THEN [request |-> req,
          outcome |-> [raised |-> "PredicateMismatch", status |-> 0,
                       allow |-> <<>>, errors |-> <<>>]]
    ELSE LET args == svc.definitions[i].args
             method == svc.definitions[i].method
             acceptable2 ==
                 IF "accept" \in DOMAIN args
                 THEN acceptable \cup get_acceptable(svc, method)
                          \cup Range(Get(req.info, "acceptable", <<>>))
                 ELSE acceptable
             supported2 ==
                 IF "content_type" \in DOMAIN args
                 THEN supported_contenttypes \cup get_contenttypes(svc, method)
                          \cup Range(Get(req.info, "supported_contenttypes", <<>>))
                 ELSE supported_contenttypes
         IN  IF method # req.method
             THEN search_definitions(svc, req, i + 1, acceptable,
                                     supported_contenttypes)
             ELSE IF "accept" \in DOMAIN args
                      /\ acceptable_offers(req, acceptable2) = {}
             THEN not_acceptable(svc, req, acceptable2)
             ELSE IF "content_type" \in DOMAIN args
                      /\ ~content_type_matches(req, supported2)
             THEN unsupported_media_type(svc, req, supported2)
             ELSE search_definitions(svc, req, i + 1, acceptable2, supported2)

\* as fallback_view, the test of the request method left out
fallback_view_any_method(svc, req) == search_definitions(svc, req, 1, {}, {})

\* _fallback_view(request) of get_fallback_view(service): the request it
\* leaves and what it raises
fallback_view(svc, req) ==
    IF req.method \notin Range(svc.defined_methods)
    THEN method_not_allowed(svc, req)
    ELSE search_definitions(svc, req, 1, {}, {})

\* the requests that reach the fallback view
Requests ==
    {[method |-> m, accept |-> a, content_type |-> c,
      info |-> ia @@ ic, errors |-> [status |-> 400, list |-> <<>>]] :
        m \in {"GET", "POST", "PUT"},
        a \in {"*/*", "application/json", "image/png", "text/csv"},
        c \in {"application/json", "image/png", "text/csv"},
        ia \in {EmptyDict, [acceptable |-> <<"image/png">>]},
        ic \in {EmptyDict, [supported_contenttypes |-> <<"image/png">>]}}

\* the definitions the fallback view searches: GET and POST views declaring
\* no value or MaxVals values of each kind
FallbackChoices == DefinitionChoices({"GET", "POST"}, {0, MaxVals})

InitFallback ==
    /\ service \in Services(FallbackChoices, Styles, {FALSE})
    /\ config = new_config
    /\ ncalls = 0
    /\ request = NoRequest
    /\ outcome = NoOutcome
    /\ response = NoResponse
    /\ pc = "dispatch"

\* no view of the route matched the request: pyramid calls the fallback view
FallbackView ==
    /\ pc = "dispatch"
    /\ \E req \in Requests :
        LET r == fallback_view(service, req)
        IN  /\ request' = r.request
            /\ outcome' = r.outcome
    /\ pc' = "raised"
    /\ UNCHANGED <<service, config, ncalls, response>>

NextFallback == FallbackView

SpecFallback == InitFallback /\ [][NextFallback]_vars

------------------------------------------------------------------------------
(* The hooks of a request: wrap_request, apply_filters, handle_exceptions,  *)
(* add_nosniff_header.  response.headers is a list of <<name, value>>, the *)
(* names compared without regard to case.                                  *)

NOSNIFF == "X-Content-Type-Options"

\* str.lower() of the header names of the model
lower(name) ==
    IF name = "X-Content-Type-Options" THEN "x-content-type-options"
    ELSE IF name = "Content-Type" THEN "content-type"
    ELSE IF name = "Access-Control-Allow-Origin"
         THEN "access-control-allow-origin"
    ELSE name

has_header(headers, name) ==
    \E i \in DOMAIN headers : lower(headers[i][1]) = lower(name)

\* response.headers.add(name, value): one more header, whatever is there
headers_add(headers, name, value) == Append(headers, <<name, value>>)

\* response.headers.setdefault(name, default)
headers_setdefault(headers, name, default) ==
    IF has_header(headers, name) THEN headers
    ELSE Append(headers, <<name, default>>)

\* response.headers[name] = value: every header of that name replaced by one
headers_setitem(headers, name, value) ==
    Append(SelectSeq(headers, LAMBDA h : lower(h[1]) # lower(name)),
           <<name, value>>)

\* as add_nosniff_header, the header added and not set by default
add_nosniff_header_added(req, resp) ==
    [resp EXCEPT !.headers = headers_add(@, NOSNIFF, "nosniff")]

\* add_nosniff_header(request, response): the response it leaves
add_nosniff_header(req, resp) ==
    [resp EXCEPT !.headers = headers_setdefault(@, NOSNIFF, "nosniff")]

\* the filters an application declares: "keep" returns the response it is
\* given, "replace" returns a new response, "stamp" sets the no-sniff header
\* of the response to a value of its own and takes the response alone
\* (called with the request it raises TypeError and is called again)
Filters == {"keep", "replace", "stamp"}

\* _filter(response, request), or _filter(response) after a TypeError: st is
\* [passed, returned, same]: the response object handed to apply_filters, the
\* one the filters returned so far, and whether they are the same object
call_filter(st, filter) ==
    IF filter = "keep" THEN st
    ELSE IF filter = "replace"
    THEN [st EXCEPT !.returned = [kind |-> "response", source |-> "filter",
                                  headers |-> <<>>],
                    !.same = FALSE]
    ELSE LET stamped == [st.returned EXCEPT
                            !.headers = headers_setitem(@, NOSNIFF, "filtered")]
         IN  [st EXCEPT !.returned = stamped,
                        !.passed = IF st.same THEN stamped ELSE @]

RECURSIVE call_filters(_, _)
call_filters(st, filters) ==
    IF filters = <<>> THEN st
    ELSE call_filters(call_filter(st, Head(filters)), Tail(filters))

\* cornice.cors.apply_cors_post_request(service, request, response): CORS
\* headers are set on the response
apply_cors_post_request(svc, req, resp) ==
    [resp EXCEPT !.headers =
        headers_setdefault(@, "Access-Control-Allow-Origin", "*")]

\* apply_filters(request, response): [passed, returned, same] when it returns
apply_filters(svc, req, resp) ==
    LET st0 == [passed |-> resp, returned |-> resp, same |-> TRUE]
    IN  IF req.matched_route /\ req.current_service
        THEN LET st1 == call_filters(st0, Get(req.cornice_args, "filters", <<>>))
                 cors == apply_cors_post_request(svc, req, st1.returned)
             IN  IF svc.cors_enabled
                 THEN [st1 EXCEPT !.returned = cors,
                                  !.passed = IF st1.same THEN cors ELSE @]
                 ELSE st1
        ELSE st0

\* the headers application code gives its responses and HTTP exceptions
AppHeaders ==
    {<<>>,
     << <<"Content-Type", "application/json">> >>,
     << <<"X-Content-Type-Options", "nosniff">> >>,
     << <<"Content-Type", "text/html">>, <<"X-Content-Type-Options", "none">> >>,
     << <<"x-content-type-options", "none">> >>}

\* the requests pyramid hands to the hooks: whether a route matched, whether
\* the route is the one of a service, the filters of the matched view,
\* whether the settings name available_languages, and whether validated,
\* errors and info were set before the NewRequest event
NewRequests ==
    {[method |-> "GET", matched_route |-> mr, current_service |-> cs,
      cornice_args |-> ca, attrs |-> preset, response_callbacks |-> <<>>,
      available_languages |-> al] :
        mr \in BOOLEAN, cs \in BOOLEAN, al \in BOOLEAN,
        ca \in {EmptyDict} \cup
               {[filters |-> fs] : fs \in SeqsUpTo(Filters, MaxFilters)},
        preset \in {EmptyDict,
                    [validated |-> "set", errors |-> "set",
                     info |-> [cors_checked |-> TRUE]]}}

InitResp ==
    /\ service \in {new_service(cors, "") : cors \in BOOLEAN}
    /\ config = new_config
    /\ ncalls = 0
    /\ request \in NewRequests
    /\ outcome = NoOutcome
    /\ response = NoResponse
    /\ pc = "new"

\* wrap_request(event), the subscriber of pyramid's NewRequest event
wrap_request(req) ==
    LET callbacks == req.response_callbacks
                        \o <<"apply_filters", "add_nosniff_header">>
        validated == Get(req.attrs, "validated", "empty")
        errors == Get(req.attrs, "errors",
                      IF req.available_languages THEN "Errors(localizer)"
                      ELSE "Errors()")
        info == Get(req.attrs, "info", EmptyDict)
    IN  [req EXCEPT !.response_callbacks = callbacks,
                    !.attrs = [validated |-> validated, errors |-> errors,
                               info |-> info]]

WrapRequest ==
    /\ pc = "new"
    /\ request' = wrap_request(request)
    /\ pc' = "view"
    /\ UNCHANGED <<service, config, ncalls, outcome, response>>

\* the view of the request returns a response
ViewReturns ==
    /\ pc = "view"
    /\ \E hs \in AppHeaders :
        response' = [kind |-> "response", source |-> "view", headers |-> hs]
    /\ pc' = "callbacks"
    /\ UNCHANGED <<service, config, ncalls, request, outcome>>

\* the view of the request raises: an HTTPException or another exception
ViewRaises ==
    /\ pc = "view"
    /\ \/ \E hs \in AppHeaders :
            outcome' = [kind |-> "HTTPException", source |-> "exception",
                        headers |-> hs]
       \/ outcome' = [kind |-> "Exception", source |-> "exception",
                      headers |-> <<>>]
    /\ pc' = "exception"
    /\ UNCHANGED <<service, config, ncalls, request, response>>

\* handle_exceptions(exc, request), the exception view: another exception
\* is raised again, an HTTPException goes through apply_filters
HandleExceptions ==
    /\ pc = "exception"
    /\ IF outcome.kind # "HTTPException"
       THEN /\ pc' = "error"
            /\ UNCHANGED <<request, response>>
       ELSE /\ request' = [request EXCEPT !.attrs["info"] =
                              Put(@, "cors_checked", FALSE)]
            /\ response' = apply_filters(service, request',
                              [kind |-> "response", source |-> "exception",
                               headers |-> outcome.headers]).returned
            /\ pc' = "callbacks"
    /\ UNCHANGED <<service, config, ncalls, outcome>>

\* pyramid pops the next response callback and calls it with the request and
\* the response, whose value it ignores
ResponseCallback ==
    /\ pc = "callbacks"
    /\ request.response_callbacks # <<>>
    /\ LET callback == Head(request.response_callbacks)
       IN  response' =
              IF callback = "apply_filters"
              THEN apply_filters(service, request, response).passed
              ELSE add_nosniff_header(request, response)
    /\ request' = [request EXCEPT !.response_callbacks = Tail(@)]
    /\ UNCHANGED <<service, config, ncalls, outcome, pc>>

\* the callbacks are done: the response goes out
SendResponse ==
    /\ pc = "callbacks"
    /\ request.response_callbacks = <<>>
    /\ pc' = "sent"
    /\ UNCHANGED <<service, config, ncalls, request, outcome, response>>

NextResp ==
    \/ WrapRequest
    \/ ViewReturns
    \/ ViewRaises
    \/ HandleExceptions
    \/ ResponseCallback
    \/ SendResponse

SpecResp == InitResp /\ [][NextResp]_vars

------------------------------------------------------------------------------
(* Properties of the registration *)

\* the add_view calls made by the call of register_service_views that takes
\* the configuration from cfg to cfg2
new_views(cfg, cfg2) == SubSeq(cfg2.views, Len(cfg.views) + 1, Len(cfg2.views))

\* number of values a definition declares for accept or content_type
declared_count(args, kind) ==
    IF kind \notin DOMAIN args THEN 0
    ELSE IF args[kind].list THEN Len(args[kind].items) ELSE 1

\* the add_view calls recorded for definition number i
views_of(i) == {k \in DOMAIN config.views : config.views[k].defn = i}

\* the synthetic registration: the one whose content_type is the empty string
is_synthetic(v) ==
    "content_type" \in DOMAIN v.kwargs /\ v.kwargs["content_type"] = ""

\* C1: after any number of calls, every definition that declares M accept
\* values and C content_type values has, per call, max(M,1) x max(C,1)
\* concrete registrations and, exactly when M + C > 0, one more registration
\* with the empty content type; it never has none.
C1_RegistrationCount ==
    \A i \in DOMAIN service.definitions :
        LET args == service.definitions[i].args
            M == declared_count(args, "accept")
            C == declared_count(args, "content_type")
            synthetic == {k \in views_of(i) : is_synthetic(config.views[k])}
            concrete == views_of(i) \ synthetic
        IN  ncalls >= 1 =>
                /\ Cardinality(concrete) = ncalls * Max(M, 1) * Max(C, 1)
                /\ Cardinality(synthetic) = ncalls * (IF M + C > 0 THEN 1 ELSE 0)
                /\ Cardinality(views_of(i)) >= 1

C1_Witness ==
    /\ ncalls = 1
    /\ \E i \in DOMAIN service.definitions :
        /\ declared_count(service.definitions[i].args, "accept") = 2
        /\ declared_count(service.definitions[i].args, "content_type") = 2
        /\ Cardinality(views_of(i)) = 5
    /\ \E i \in DOMAIN service.definitions :
        /\ declared_count(service.definitions[i].args, "accept") = 0
        /\ declared_count(service.definitions[i].args, "content_type") = 0
        /\ "accept" \in DOMAIN service.definitions[i].args
        /\ Cardinality(views_of(i)) = 1

is_preflight(v) == v.view.view = "cors_preflight_view"

preflight_definitions(svc) ==
    {i \in DOMAIN svc.definitions :
        svc.definitions[i].view = "cors_preflight_view"}

\* C6: a call for a service with CORS enabled and OPTIONS not among its
\* defined methods registers exactly one view bound to the CORS preflight
\* view, for OPTIONS, on the route of the service, with no permission
\* required, the application having declared none; a call for a service
\* with CORS disabled or with OPTIONS defined adds no preflight definition:
\* it registers none but the preflight views the service already had.
C6_CorsPreflight ==
    [][ncalls' = ncalls + 1 =>
        LET new == new_views(config, config')
            pre == {k \in DOMAIN new : is_preflight(new[k])}
        IN  IF service.cors_enabled /\ "OPTIONS" \notin Range(service.defined_methods)
            THEN /\ preflight_definitions(service) = {}
                 /\ Cardinality(pre) = 1
                 /\ \A k \in pre :
                        /\ new[k].kwargs["request_method"] = "OPTIONS"
                        /\ new[k].kwargs["permission"] = NO_PERMISSION_REQUIRED
                        /\ new[k].route_name = route_name_of(service)
                        /\ DOMAIN new[k].kwargs = {"request_method", "permission"}
            ELSE /\ Len(service'.definitions) = Len(service.definitions)
                 /\ Cardinality(pre) = Cardinality(preflight_definitions(service))
                 /\ (ncalls = 0 => pre = {})
    ]_vars

C6_Witness ==
    /\ ncalls = 1
    /\ service.cors_enabled
    /\ Len(service.definitions) = 3
    /\ Cardinality({k \in DOMAIN config.views : is_preflight(config.views[k])}) = 1

\* C7 (as claimed): the second call emits the same sequence of add_view calls
\* as the first one, validators bound to the decorated views included.
C7_SecondCallSame ==
    [][(ncalls = 1 /\ ncalls' = 2) =>
        new_views(config, config') = config.views]_vars

is_fallback(v) == v.view.kind = "fallback"

\* C8: a call registers the fallback view exactly once when the service has a
\* definition (the preflight definition of the call counted) and not at all
\* when it has none; that add_view call is the last one of the call, and it
\* passes permission = NO_PERMISSION_REQUIRED and require_csrf = False and
\* nothing else: no request_method, accept, content_type, custom_predicates.
C8_FallbackLast ==
    [][ncalls' = ncalls + 1 =>
        LET new == new_views(config, config')
            fb == {k \in DOMAIN new : is_fallback(new[k])}
        IN  IF service'.definitions # <<>>
            THEN /\ fb = {Len(new)}
                 /\ Len(new) > Len(service'.definitions)
                 /\ new[Len(new)].kwargs =
                        [permission |-> NO_PERMISSION_REQUIRED,
                         require_csrf |-> FALSE]
                 /\ new[Len(new)].route_name = route_name_of(service)
            ELSE new = <<>>
    ]_vars

C8_Witness ==
    /\ ncalls = 2
    /\ service.cors_enabled
    /\ Len(service.definitions) = 3
    /\ Len(config.views) >= 12
    /\ is_fallback(config.views[Len(config.views)])
    /\ is_preflight(config.views[Len(config.views) - 1])

\* the arguments the claim expects for the registrations of a definition:
\* each combination resolved on a fresh copy of the stripped arguments
fresh_copy_kwargs(def) ==
    LET popped == pop_complex_predicates(
                      strip_args(Put(def.args, "request_method", def.method)))
        lists == popped.predicate_product
                    \o << <<[kind |-> "content_type", value |-> Scalar("")]>> >>
    IN  IF popped.predicate_product = <<>> THEN {popped.args}
        ELSE {mungle_view_args(popped.args, lists[k]) : k \in DOMAIN lists}

\* C9 (as claimed): every registration of a definition carries the stripped
\* arguments of the definition resolved with one combination only, nothing
\* of another combination carried over.
C9_FreshCopy ==
    \A k \in DOMAIN config.views :
        config.views[k].defn > 0 =>
            config.views[k].kwargs \in
                fresh_copy_kwargs(service.definitions[config.views[k].defn])

\* C10 (as claimed): a call leaves the definitions of the service, their
\* arguments and defined_methods as they were.
C10_ServiceUnchanged ==
    [][ncalls' = ncalls + 1 =>
        /\ service'.definitions = service.definitions
        /\ service'.defined_methods = service.defined_methods]_vars

------------------------------------------------------------------------------
(* Properties of the fallback view *)

\* the definitions of the method of the request
method_definitions ==
    {i \in DOMAIN service.definitions :
        service.definitions[i].method = request.method}

declares(kind) ==
    \E i \in method_definitions : kind \in DOMAIN service.definitions[i].args

\* the strings the definitions of the request method declare for kind
declared_union(kind) ==
    UNION {{a.v : a \in {x \in Range(
                IF service.definitions[i].args[kind].list
                THEN service.definitions[i].args[kind].items
                ELSE <<service.definitions[i].args[kind].items[1]>>) :
                    ~x.callable}} :
           i \in {j \in method_definitions :
                    kind \in DOMAIN service.definitions[j].args}}

\* the acceptable offers: declared accept values and request-time overrides
acceptable_set ==
    declared_union("accept") \cup
        (IF "acceptable" \in DOMAIN request.info
         THEN Range(request.info["acceptable"]) ELSE {})

\* the supported content types: declared ones and request-time overrides
supported_set ==
    declared_union("content_type") \cup
        (IF "supported_contenttypes" \in DOMAIN request.info
         THEN Range(request.info["supported_contenttypes"]) ELSE {})

\* the Accept header allows none of the acceptable offers
accept_fails ==
    /\ declares("accept")
    /\ \A o \in acceptable_set : request.accept # "*/*" /\ request.accept # o

content_type_fails ==
    /\ declares("content_type")
    /\ request.content_type \notin supported_set

method_defined == request.method \in Range(service.defined_methods)

\* C2: a request whose method is not among defined_methods gets
\* HTTPMethodNotAllowed (405) whose allow is defined_methods, whatever its
\* Accept and Content-Type; no error is added to request.errors and its
\* status is left alone.
C2_MethodNotAllowed ==
    (pc = "raised" /\ ~method_defined) =>
        /\ outcome.raised = "HTTPMethodNotAllowed"
        /\ outcome.status = 405
        /\ outcome.allow = service.defined_methods
        /\ request.errors = [status |-> 400, list |-> <<>>]

C2_Witness ==
    /\ pc = "raised"
    /\ ~method_defined
    /\ Len(service.defined_methods) = 2
    /\ request.accept = "image/png"
    /\ request.content_type = "image/png"
    /\ \E i \in DOMAIN service.definitions :
        {"accept", "content_type"} \subseteq DOMAIN service.definitions[i].args
    /\ outcome.status = 405

\* C3 (as claimed): a request whose method is defined, for which some
\* definition declares accept, and whose Accept header allows none of the
\* acceptable offers gets 406 with the one error 'header'/'Accept' naming the
\* acceptable set, whatever its Content-Type and the order of definitions.
C3_NotAcceptable ==
    (pc = "raised" /\ method_defined /\ accept_fails) =>
        /\ outcome.raised = "error_handler"
        /\ outcome.status = 406
        /\ request.errors.status = 406
        /\ request.errors.list =
              <<[location |-> "header", name |-> "Accept",
                 description |-> [should_be_one_of |-> acceptable_set]]>>
        /\ outcome.errors = request.errors.list

\* C4: a request whose method is defined, whose Accept header is acceptable
\* (or no definition of the method declares accept), for which some
\* definition declares content_type, and whose content type is none of the
\* supported ones gets 415 with the one error 'header'/'Content-Type' naming
\* the supported set; PredicateMismatch is raised only when the method is
\* defined and neither check fails; the view always raises.
C4_UnsupportedMediaType ==
    pc = "raised" =>
        /\ (method_defined /\ ~accept_fails /\ content_type_fails) =>
              /\ outcome.raised = "error_handler"
              /\ outcome.status = 415
              /\ request.errors.status = 415
              /\ request.errors.list =
                    <<[location |-> "header", name |-> "Content-Type",
                       description |-> [should_be_one_of |-> supported_set]]>>
              /\ outcome.errors = request.errors.list
        /\ outcome.raised = "PredicateMismatch" =>
              method_defined /\ ~accept_fails /\ ~content_type_fails
        /\ outcome.raised \in
              {"HTTPMethodNotAllowed", "error_handler", "PredicateMismatch"}

C4_Witness ==
    /\ pc = "raised"
    /\ method_defined
    /\ declares("accept")
    /\ ~accept_fails
    /\ request.accept = "application/json"
    /\ content_type_fails
    /\ supported_set = {"application/json", "text/plain", "image/png"}
    /\ request.content_type = "text/csv"
    /\ outcome.status = 415


------------------------------------------------------------------------------
(* Properties of the response hooks *)

\* the no-sniff headers of a response
nosniff_headers(resp) ==
    {i \in DOMAIN resp.headers :
        lower(resp.headers[i][1]) = "x-content-type-options"}

add_nosniff_header_runs ==
    /\ pc = "callbacks"
    /\ request.response_callbacks # <<>>
    /\ Head(request.response_callbacks) = "add_nosniff_header"
    /\ request'.response_callbacks = Tail(request.response_callbacks)

\* C5: the response that goes out, made by a view or from an HTTP exception,
\* holds the X-Content-Type-Options header exactly once; the step of
\* add_nosniff_header leaves a response that holds the header already as it
\* is, and adds the value nosniff to a response that does not.
C5_NoSniffOnce ==
    /\ [](pc = "sent" => Cardinality(nosniff_headers(response)) = 1)
    /\ [][add_nosniff_header_runs =>
            IF nosniff_headers(response) # {}
            THEN response' = response
            ELSE /\ response'.headers =
                        Append(response.headers, <<NOSNIFF, "nosniff">>)
                 /\ pc' = "callbacks"]_vars
    /\ [][pc = "sent" => response' = response]_vars

C5_Witness ==
    /\ pc = "sent"
    /\ response.source = "exception"
    /\ service.cors_enabled
    /\ Len(response.headers) = 2
    /\ \E i \in DOMAIN response.headers :
            response.headers[i] = <<"x-content-type-options", "none">>
==============================================================================
